---- MODULE Spec2Model ----
(***************************************************************************)
(* State-machine model of the usePreloadTokenImages hook                   *)
(* (packages/app/src/hooks/usePreloadTokenImages.ts).                      *)
(*                                                                         *)
(* One hook instance lives in a single-threaded event loop.  Every action  *)
(* below is one macrotask (an effect commit, a timer callback, an image    *)
(* load/error event, a cache garbage collection) together with all the     *)
(* synchronous code and promise continuations (microtasks) it runs to      *)
(* completion.                                                             *)
(***************************************************************************)
EXTENDS Integers, Sequences, FiniteSets, TLC

\* ------------------------------------------------------------------------
\* Bounds of the model
\* ------------------------------------------------------------------------

\* longest input sequence (two full batches and a partial third one)
MaxLen == 31

\* number of times the effect runs (mount + input changes)
MaxEffects == 2

\* how many consecutive input items refer to the same vault
Repeat == 7

\* ------------------------------------------------------------------------
\* Program constants
\* ------------------------------------------------------------------------

\* const batchSize = 15
batchSize == 15

\* const delay = 150 (ms between batches)
delay == 150

\* setTimeout(preloadInBatches, 100)
initialDelay == 100

\* ------------------------------------------------------------------------
\* Vault references, cache keys, image URLs
\* ------------------------------------------------------------------------

\* String.prototype.toLowerCase on one character of the address alphabet
LowerChar(c) ==
    CASE c = "A" -> "a"
      [] c = "B" -> "b"
      [] c = "C" -> "c"
      [] c = "D" -> "d"
      [] OTHER -> c

\* address.toLowerCase(): addresses are sequences of characters
toLowerCase(address) == [j \in 1..Len(address) |-> LowerChar(address[j])]

\* queryKey = ['token-image', chainId, address.toLowerCase()]
QueryKey(chainId, address) == <<chainId, toLowerCase(address)>>

\* a key that keeps the letter case: `${chainId}-${address}`
CacheKeyCaseSensitive(chainId, address) == <<chainId, address>>

\* cacheKey = `${chainId}-${address.toLowerCase()}`
CacheKey(chainId, address) == <<chainId, toLowerCase(address)>>

\* getSvgAsset(chainId, address): a pure function of its two arguments
getSvgAsset(chainId, address) == <<"svg", chainId, address>>

\* the vault references inputs are built from: two that differ only by the
\* letter case of the address, one with another address, one on another chain
VaultRefs ==
    << [chainId |-> 1,  address |-> <<"a", "b">>],
       [chainId |-> 1,  address |-> <<"c", "D">>],
       [chainId |-> 1,  address |-> <<"A", "b">>],
       [chainId |-> 10, address |-> <<"a", "b">>] >>

\* the query keys of the shared cache
Keys == { QueryKey(VaultRefs[n].chainId, VaultRefs[n].address) : n \in 1..Len(VaultRefs) }

\* item at 0-based position p of the inputs: each vault reference Repeat
\* times, cyclically, so that a batch holds several keys, the two case
\* variants meet inside the first batch and again across batches, and the
\* last batch only repeats keys of earlier ones
PatternItem(p) == VaultRefs[((p \div Repeat) % Len(VaultRefs)) + 1]

\* input lengths: empty, one item, one full batch, one item more, MaxLen
Lengths == {0, 1, batchSize, batchSize + 1, MaxLen}

\* the vaults prop: undefined, or an array (0-based in the code, 1-based here)
Undefined == [defined |-> FALSE, items |-> <<>>]

Inputs ==
    {Undefined} \cup
    { [defined |-> TRUE, items |-> [p \in 1..n |-> PatternItem(p - 1)]] :
        n \in Lengths }

\* absent cache value (getQueryData returns undefined)
Absent == <<>>

\* ------------------------------------------------------------------------
\* State
\* ------------------------------------------------------------------------

VARIABLES
    alive,         \* the component that owns the hook is mounted (or not yet torn down)
    effects,       \* how many times the effect has run
    vaults,        \* the vaults prop of the latest effect run
    timeoutId,     \* run whose deferral timer the pending cleanup clears (0: no cleanup)
    runs,          \* one record per setTimeout(preloadInBatches, 100): the input it
                   \* closes over, where it is suspended, the loop index i, the
                   \* batches it has formed and the timers it has scheduled (ms)
    preloadedSet,  \* preloadedSet.current
    cache,         \* queryClient cache: data stored under each query key
    loads,         \* image loads started by prefetchQuery's queryFn
    skipped        \* preloadImage calls that returned before prefetchQuery

vars == <<alive, effects, vaults, timeoutId, runs, preloadedSet, cache, loads,
          skipped>>

RunIds == 1..Len(runs)

\* loads that preloadImage calls of run r started for items lo .. hi-1 (0-based)
BatchLoads(lds, r, lo, hi) == { l \in lds : l.run = r /\ l.idx >= lo /\ l.idx < hi }

Min(a, b) == IF a < b THEN a ELSE b

\* ------------------------------------------------------------------------
\* preloadImage and the promises around it
\* ------------------------------------------------------------------------

\* a membership test that always misses
neverPreloaded(set, cacheKey) == FALSE

\* preloadedSet.current.has(cacheKey)
alreadyPreloaded(set, cacheKey) == cacheKey \in set

\* a cache read that never finds anything
cachedDataMiss(queryKey) == Absent

\* queryClient.getQueryData(queryKey)
cachedData(queryKey) == cache[queryKey]

\* an add that is lost
markNothing(set, cacheKey) == set

\* preloadedSet.current.add(cacheKey)
markPreloaded(set, cacheKey) == set \cup {cacheKey}

\* preloadImage(chainId, address) up to its first suspension, for item idx of
\* run r; acc carries preloadedSet.current, the loads and the early returns
preloadImage(acc, r, idx, chainId, address) ==
    LET imageUrl == getSvgAsset(chainId, address)
        queryKey == QueryKey(chainId, address)
        cacheKey == CacheKey(chainId, address)
    IN  IF alreadyPreloaded(acc.set, cacheKey)
          THEN [acc EXCEPT !.skipped = @ \cup
                   {[run |-> r, idx |-> idx, queryKey |-> queryKey, why |-> "attempted"]}]
        ELSE IF cachedData(queryKey) # Absent
          THEN [acc EXCEPT !.skipped = @ \cup
                   {[run |-> r, idx |-> idx, queryKey |-> queryKey, why |-> "cached"]}]
        ELSE [acc EXCEPT
                 !.set = markPreloaded(@, cacheKey),
                 !.loads = @ \cup
                   {[run |-> r, idx |-> idx, queryKey |-> queryKey, url |-> imageUrl,
                     state |-> "pending", promise |-> "pending"]}]

\* batch.map((vault) => preloadImage(vault.chainId, vault.asset.address)) over
\* the items p .. hi-1 (0-based) of the input, in order (the state left by
\* one call is bound to a, so that it is computed once)
RECURSIVE MapPreload(_, _, _, _, _)
MapPreload(acc, r, items, p, hi) ==
    IF p >= hi THEN acc
    ELSE CHOOSE out \in
           { MapPreload(preloadImage(a, r, p, items[p + 1].chainId, items[p + 1].address),
                        r, items, p + 1, hi) : a \in {acc} } : TRUE

\* preloadImage without its try/catch: a failed load rejects the promise
PreloadPromiseNoCatch(loadState) ==
    IF loadState = "ok" THEN "fulfilled" ELSE "rejected"

\* a load whose failure is never signalled: img.onerror is not wired, so
\* the promise of preloadImage stays pending
PreloadPromiseHangs(loadState) ==
    IF loadState = "ok" THEN "fulfilled" ELSE "pending"

\* how the promise of preloadImage settles once the image load has: the
\* try/catch around prefetchQuery swallows the failure
PreloadPromise(loadState) ==
    CASE loadState = "ok" -> "fulfilled"       \* await returns, function ends
      [] loadState = "failed" -> "fulfilled"   \* catch: console.debug, function ends

\* a combinator that resolves with the first promise to settle (Promise.race)
firstSettled(ps) ==
    IF ps # {} /\ ps \subseteq {"pending"} THEN "pending" ELSE "fulfilled"

\* Promise.allSettled over a batch whose started loads have promises ps
\* (calls that returned early are already fulfilled)
AllSettled(ps) ==
    IF "pending" \in ps THEN "pending" ELSE "fulfilled"

\* ------------------------------------------------------------------------
\* preloadInBatches
\* ------------------------------------------------------------------------

\* the test off by one: if (i + batchSize <= vaults.length)
moreBatchesInclusive(i, n) == i + batchSize <= n

\* if (i + batchSize < vaults.length)
moreBatches(i, n) == i + batchSize < n

\* the code after `await Promise.allSettled(...)` of the batch starting at
\* run.i: the pacing delay, or the loop's exit
AfterBatch(run, lds, r) ==
    LET n == Len(run.input)
        settled == AllSettled({ l.promise :
                       l \in BatchLoads(lds, r, run.i, run.i + batchSize) })
    IN  IF settled = "pending" THEN [run EXCEPT !.pc = "loading"]
        ELSE IF settled = "rejected" THEN [run EXCEPT !.pc = "rejected"]
        ELSE IF moreBatches(run.i, n)
          THEN [run EXCEPT !.pc = "delay", !.timers = Append(@, delay)]
        ELSE [run EXCEPT !.pc = "done"]

\* a slice that is one item short: vaults.slice(i, i + batchSize - 1)
sliceEndShort(i, n) == Min(i + batchSize - 1, n)

\* end (exclusive, 0-based) of vaults.slice(i, i + batchSize)
sliceEnd(i, n) == Min(i + batchSize, n)

\* one iteration of the for loop, from its test `i < vaults.length` to the
\* first suspension after the batch has been issued
LoopFrom(r, i) ==
    LET run == runs[r]
        n == Len(run.input)
    IN  IF i < n
          THEN LET hi == sliceEnd(i, n)
                   started == [run EXCEPT !.i = i,
                                          !.batches = Append(@, [lo |-> i, hi |-> hi])]
               IN  \E acc \in { MapPreload([set |-> preloadedSet, loads |-> loads,
                                             skipped |-> skipped], r, run.input, i, hi) } :
                     /\ preloadedSet' = acc.set
                     /\ loads' = acc.loads
                     /\ skipped' = acc.skipped
                     /\ runs' = [runs EXCEPT ![r] = AfterBatch(started, acc.loads, r)]
          ELSE /\ runs' = [runs EXCEPT ![r].pc = "done", ![r].i = i]
               /\ UNCHANGED <<preloadedSet, loads, skipped>>

\* ------------------------------------------------------------------------
\* Initial state: the hook instance right after useRef(new Set()), before
\* its first effect; the shared cache may already hold some images
\* ------------------------------------------------------------------------

Init ==
    /\ alive = TRUE
    /\ effects = 0
    /\ vaults = Undefined
    /\ timeoutId = 0
    /\ runs = <<>>
    /\ preloadedSet = {}
    /\ \E cached \in SUBSET {QueryKey(VaultRefs[1].chainId, VaultRefs[1].address)} :
          cache = [k \in Keys |->
                     IF k \in cached THEN getSvgAsset(k[1], k[2]) ELSE Absent]
    /\ loads = {}
    /\ skipped = {}

\* ------------------------------------------------------------------------
\* Actions
\* ------------------------------------------------------------------------

\* a cleanup that leaves the timer armed
clearTimeoutNoop(rs, id) == rs

\* clearTimeout(id): a timer that has not fired yet never will
clearTimeout(rs, id) ==
    IF id # 0 /\ rs[id].pc = "deferred"
      THEN [rs EXCEPT ![id].pc = "cancelled"]
      ELSE rs

\* the guard without its length test: if (!vaults) return
isUndefinedInput(input) == ~input.defined

\* if (!vaults || vaults.length === 0) return
isEmptyInput(input) == ~input.defined \/ Len(input.items) = 0

\* a run scheduled without deferral: setTimeout(preloadInBatches, 0)
NewRunNoDeferral(items) ==
    [input |-> items, pc |-> "deferred", i |-> 0, batches |-> <<>>, timers |-> <<0>>]

\* setTimeout(preloadInBatches, 100) over the vaults the closure captured
NewRun(items) ==
    [input |-> items, pc |-> "deferred", i |-> 0, batches |-> <<>>,
     timers |-> <<initialDelay>>]

\* the effect runs for a new vaults prop (mount or input change): cleanup of
\* the previous effect first, then the effect body
RunEffect(input) ==
    /\ alive
    /\ effects < MaxEffects
    /\ effects' = effects + 1
    /\ vaults' = input
    /\ LET cleaned == clearTimeout(runs, timeoutId)
       IN  IF isEmptyInput(input)
             THEN /\ runs' = cleaned
                  /\ timeoutId' = 0
             ELSE /\ runs' = Append(cleaned, NewRun(input.items))
                  /\ timeoutId' = Len(runs) + 1
    /\ UNCHANGED <<alive, preloadedSet, cache, loads, skipped>>

\* a teardown whose cleanup also empties the set: preloadedSet.current.clear()
UnmountClearing ==
    /\ alive
    /\ effects > 0
    /\ alive' = FALSE
    /\ runs' = clearTimeout(runs, timeoutId)
    /\ timeoutId' = 0
    /\ preloadedSet' = {}
    /\ UNCHANGED <<effects, vaults, cache, loads, skipped>>

\* the owning view is torn down: the last effect's cleanup runs
Unmount ==
    /\ alive
    /\ effects > 0
    /\ alive' = FALSE
    /\ runs' = clearTimeout(runs, timeoutId)
    /\ timeoutId' = 0
    /\ UNCHANGED <<effects, vaults, preloadedSet, cache, loads, skipped>>

\* the 100 ms deferral timer of run r fires: preloadInBatches starts
TimerFire(r) ==
    /\ runs[r].pc = "deferred"
    /\ LoopFrom(r, 0)
    /\ UNCHANGED <<alive, effects, vaults, timeoutId, cache>>

\* the 150 ms pacing timer of run r fires: i += batchSize, next iteration
DelayFire(r) ==
    /\ runs[r].pc = "delay"
    /\ LoopFrom(r, runs[r].i + batchSize)
    /\ UNCHANGED <<alive, effects, vaults, timeoutId, cache>>

\* a result that is dropped when its run is no longer the current one
StoreResultIfCurrent(c, l, outcome) ==
    IF outcome = "ok" /\ l.run = timeoutId THEN [c EXCEPT ![l.queryKey] = l.url] ELSE c

\* a result that is stored whatever the outcome
StoreResultAlways(c, l, outcome) == [c EXCEPT ![l.queryKey] = l.url]

\* prefetchQuery stores what queryFn resolved with (img.onload: imageUrl);
\* a rejection (img.onerror) stores no data
StoreResult(c, l, outcome) ==
    IF outcome = "ok" THEN [c EXCEPT ![l.queryKey] = l.url] ELSE c

\* img.onload / img.onerror of load l: the query settles, prefetchQuery
\* stores the URL on success, preloadImage returns, and when this was the
\* last load of the batch preloadInBatches resumes
Settle(l, outcome) ==
    /\ l.state = "pending"
    /\ LET done == [l EXCEPT !.state = outcome, !.promise = PreloadPromise(outcome)]
           lds == (loads \ {l}) \cup {done}
           r == l.run
       IN  /\ loads' = lds
           /\ cache' = StoreResult(cache, l, outcome)
           /\ runs' = IF runs[r].pc = "loading"
                        THEN [runs EXCEPT ![r] = AfterBatch(runs[r], lds, r)]
                        ELSE runs
    /\ UNCHANGED <<alive, effects, vaults, timeoutId, preloadedSet, skipped>>

\* the cache library garbage-collects an entry (gcTime elapsed)
GcEvict(k) ==
    /\ cache[k] # Absent
    /\ cache' = [cache EXCEPT ![k] = Absent]
    /\ UNCHANGED <<alive, effects, vaults, timeoutId, runs, preloadedSet, loads, skipped>>

Next ==
    \/ \E input \in Inputs : RunEffect(input)
    \/ Unmount
    \/ \E r \in RunIds : TimerFire(r)
    \/ \E r \in RunIds : DelayFire(r)
    \/ \E l \in loads : \E outcome \in {"ok", "failed"} : Settle(l, outcome)
    \/ \E k \in Keys : GcEvict(k)

Spec == Init /\ [][Next]_vars

\* every pacing timer that is set fires, and every image load that was
\* started gets its load or error event
FairSpec ==
    /\ Spec
    /\ WF_vars(\E r \in RunIds : DelayFire(r))
    /\ WF_vars(\E l \in loads : \E outcome \in {"ok", "failed"} : Settle(l, outcome))

\* ------------------------------------------------------------------------
\* Properties
\* ------------------------------------------------------------------------

CeilDiv(n, d) == (n + d - 1) \div d

\* the runs whose deferral timer has fired
Started(r) == runs[r].pc \notin {"deferred", "cancelled"}

\* preloadImage was called exactly once for each of the items 0 .. hi-1
\* (0-based) of run r and for no other item: the calls cover these items,
\* and there are as many calls as items
CalledOncePerItem(r, hi) ==
    LET started == { l \in loads : l.run = r }
        returned == { x \in skipped : x.run = r }
    IN  /\ { l.idx : l \in started } \cup { x.idx : x \in returned } = 0..(hi - 1)
        /\ Cardinality(started) + Cardinality(returned) = hi

\* the batches of run r that contain item p
BatchesOf(r, p) ==
    { k \in 1..Len(runs[r].batches) :
        runs[r].batches[k].lo <= p /\ p < runs[r].batches[k].hi }

\* the latest batch of a run that has formed one
LastBatch(r) == runs[r].batches[Len(runs[r].batches)]

PendingLoads(r) == { l \in loads : l.run = r /\ l.state = "pending" }

\* C1: a run over N items forms the batches [15k, min(15k+15, N)), k = 0, 1,
\* ..., in this order, ceil(N/15) of them once it has finished; preloadImage
\* is called exactly once for every item of the batches formed so far and
\* never for an item outside them, and every item of a finished run is in
\* exactly one batch.
C1_Batches ==
    \A r \in RunIds :
      LET run == runs[r]
          n == Len(run.input)
          nb == Len(run.batches)
      IN  /\ ~Started(r) => nb = 0
          /\ nb <= CeilDiv(n, batchSize)
          /\ \A k \in 1..nb :
               /\ run.batches[k] = [lo |-> batchSize * (k - 1),
                                    hi |-> Min(batchSize * k, n)]
               /\ k < nb => run.batches[k].hi - run.batches[k].lo = batchSize
          /\ CalledOncePerItem(r, IF nb = 0 THEN 0 ELSE run.batches[nb].hi)
          /\ run.pc = "done" =>
               /\ nb = CeilDiv(n, batchSize)
               /\ \A p \in 0..(n - 1) : Cardinality(BatchesOf(r, p)) = 1

\* a finished run over more than two full batches of items, with a last
\* batch shorter than batchSize
C1_Witness ==
    \E r \in RunIds :
      /\ runs[r].pc = "done"
      /\ Len(runs[r].input) > 2 * batchSize
      /\ Len(runs[r].batches) = 3
      /\ LastBatch(r).hi - LastBatch(r).lo < batchSize

\* a step in which run r forms a batch
FormsBatch(r) == Len(runs'[r].batches) > Len(runs[r].batches)

\* C2: batches are formed in input order; a load that has not settled
\* belongs to the latest batch of its run, so a batch is formed only when
\* every load of the batches before it has settled; and the step that forms
\* a batch issues all of its items, none of whose loads has settled yet.
C2_InOrder ==
    \A r \in RunIds :
      /\ \A k \in 1..(Len(runs[r].batches) - 1) :
           runs[r].batches[k].hi <= runs[r].batches[k + 1].lo
      /\ \A l \in PendingLoads(r) :
           /\ runs[r].batches # <<>>
           /\ LastBatch(r).lo <= l.idx /\ l.idx < LastBatch(r).hi

C2_IssuedTogether ==
    \A r \in RunIds :
      FormsBatch(r) =>
        /\ PendingLoads(r) = {}
        /\ LET b == runs'[r].batches[Len(runs'[r].batches)]
           IN  \A p \in b.lo..(b.hi - 1) :
                 \/ \E s \in skipped' : s.run = r /\ s.idx = p
                 \/ \E l \in loads' : l.run = r /\ l.idx = p /\ l.state = "pending"

C2_BatchOrder == []C2_InOrder /\ [][C2_IssuedTogether]_vars

\* the second batch is in flight after two loads of the first batch have
\* settled, one by success and one by failure
C2_Witness ==
    \E r \in RunIds :
      /\ Len(runs[r].batches) = 2
      /\ \E l \in PendingLoads(r) : l.idx >= batchSize
      /\ \E l1, l2 \in loads :
           /\ l1.run = r /\ l2.run = r
           /\ l1.idx < batchSize /\ l2.idx < batchSize
           /\ l1.state = "ok" /\ l2.state = "failed"

\* the timers a run with nb batches behind it has scheduled: the deferral
\* and one pacing delay after each of the first `gaps` batches
TimersFor(gaps) == <<initialDelay>> \o [k \in 1..gaps |-> delay]

\* C3: a run schedules the 100 ms deferral, then exactly one 150 ms delay
\* between two consecutive batches and none after the final one: while batch
\* k is in flight, and when the run has finished, k-1 delays were scheduled;
\* a delay is pending only when items remain after the settled batch; and a
\* run is never left waiting once all loads of its batch have settled.
C3_Pacing ==
    \A r \in RunIds :
      LET run == runs[r]
          nb == Len(run.batches)
      IN  /\ ~Started(r) => run.timers = <<initialDelay>>
          /\ run.pc \in {"loading", "done"} => run.timers = TimersFor(nb - 1)
          /\ run.pc = "delay" =>
               /\ run.timers = TimersFor(nb)
               /\ LastBatch(r).hi < Len(run.input)
               /\ PendingLoads(r) = {}
          /\ run.pc = "done" => LastBatch(r).hi = Len(run.input)
          /\ run.pc = "loading" => PendingLoads(r) # {}

\* a run of three batches has finished with two pacing delays, and a run
\* whose input is exactly one batch has finished with none
C3_Witness ==
    /\ \E r \in RunIds :
         /\ runs[r].pc = "done"
         /\ Len(runs[r].batches) = 3
         /\ runs[r].timers = <<initialDelay, delay, delay>>
    /\ \E r \in RunIds :
         /\ runs[r].pc = "done"
         /\ Len(runs[r].input) = batchSize
         /\ runs[r].timers = <<initialDelay>>

\* the items (0-based) run r has started a load for
LoadedItems(lds, r) == { l.idx : l \in { x \in lds : x.run = r } }

\* C4 (as claimed): once the input has changed or the view is torn down, the
\* run that was current before (any run other than the one the pending
\* cleanup belongs to) forms no further batch and starts no further load.
C4_PriorRunStops ==
    [][\A r \in RunIds :
         r # timeoutId =>
           /\ runs'[r].batches = runs[r].batches
           /\ LoadedItems(loads', r) = LoadedItems(loads, r)]_vars

\* C5: a run whose deferral has not elapsed when the input changes or the
\* view is torn down is cancelled by that step, which leaves the attempted
\* set, the cache and the loads unchanged; a cancelled run never acts: it
\* has formed no batch, made no preloadImage call and scheduled no timer
\* but its deferral, and it stays so.
C5_Inv ==
    \A r \in RunIds :
      /\ runs[r].pc = "deferred" => alive /\ r = timeoutId
      /\ runs[r].pc = "cancelled" =>
           /\ runs[r].batches = <<>>
           /\ runs[r].timers = <<initialDelay>>
           /\ \A l \in loads : l.run # r
           /\ \A x \in skipped : x.run # r

C5_Act ==
    \A r \in RunIds :
      /\ (runs[r].pc = "deferred" /\ (alive' # alive \/ effects' # effects)) =>
           /\ runs'[r].pc = "cancelled"
           /\ UNCHANGED <<preloadedSet, cache, loads, skipped>>
      /\ runs[r].pc = "cancelled" => runs'[r] = runs[r]

C5_CancelBeforeDeferral == []C5_Inv /\ [][C5_Act]_vars

\* the view was torn down while the only run was still deferred
C5_Witness ==
    /\ ~alive
    /\ Len(runs) = 1
    /\ runs[1].pc = "cancelled"
    /\ preloadedSet = {}
    /\ loads = {}

\* the loads a step starts
NewLoads == { l \in loads' : l \notin loads /\ l.state = "pending" }

\* C6: a load is started only for a query key that has no value in the
\* shared cache when its batch is processed; an item whose key has a value
\* is skipped.
C6_CachedNotLoaded ==
    [][/\ \A l \in NewLoads : cache[l.queryKey] = Absent
       /\ \A r \in RunIds :
            FormsBatch(r) =>
              LET b == runs'[r].batches[Len(runs'[r].batches)]
              IN  \A p \in b.lo..(b.hi - 1) :
                    LET v == runs[r].input[p + 1]
                    IN  cache[<<v.chainId, toLowerCase(v.address)>>] # Absent =>
                          /\ p \notin LoadedItems(loads', r)
                          /\ \E x \in skipped' : x.run = r /\ x.idx = p]_vars

\* an item was skipped because its key was in the cache but not in the
\* attempted set
C6_Witness ==
    \E x \in skipped : x.why = "cached" /\ cache[x.queryKey] # Absent

\* the vault references among the items lo+1 .. hi (1-based) of an input
RefsIn(input, lo, hi) == { input[p] : p \in (lo + 1)..hi }

\* pairs of vault references of an input that have the same chainId and
\* addresses that differ only by letter case
VariantPairs(input) ==
    { vw \in RefsIn(input, 0, Len(input)) \X RefsIn(input, 0, Len(input)) :
        /\ vw[1].chainId = vw[2].chainId
        /\ vw[1].address # vw[2].address
        /\ toLowerCase(vw[1].address) = toLowerCase(vw[2].address) }

\* the loads run r started for query key k
LoadsFor(lds, r, k) == { l \in lds : l.run = r /\ l.queryKey = k }

\* C7 (as claimed): a finished run has started exactly one load for the key
\* of two vault references that differ only by letter case.
C7_ExactlyOne ==
    \A r \in RunIds :
      runs[r].pc = "done" =>
        \A vw \in VariantPairs(runs[r].input) :
          Cardinality(LoadsFor(loads, r,
              <<vw[1].chainId, toLowerCase(vw[1].address)>>)) = 1

\* C7 (amended): two such references have the same cache key and the same
\* query key, and a run starts at most one load for it; the step that
\* processes a batch holding one of the two starts exactly one load for the
\* key when the key is neither in the attempted set nor in the cache, and
\* none when it is in one of them.
C7_Inv ==
    \A r \in RunIds :
      \A vw \in VariantPairs(runs[r].input) :
        /\ CacheKey(vw[1].chainId, vw[1].address) = CacheKey(vw[2].chainId, vw[2].address)
        /\ QueryKey(vw[1].chainId, vw[1].address) = QueryKey(vw[2].chainId, vw[2].address)
        /\ Cardinality(LoadsFor(loads, r,
               <<vw[1].chainId, toLowerCase(vw[1].address)>>)) <= 1

C7_Act ==
    \A r \in RunIds :
      FormsBatch(r) =>
        LET b == runs'[r].batches[Len(runs'[r].batches)]
            inBatch == RefsIn(runs[r].input, b.lo, b.hi)
        IN  \A vw \in VariantPairs(runs[r].input) :
              vw[1] \in inBatch =>
                LET k == <<vw[1].chainId, toLowerCase(vw[1].address)>>
                IN  IF k \notin preloadedSet /\ cache[k] = Absent
                      THEN /\ LoadsFor(loads, r, k) = {}
                           /\ Cardinality(LoadsFor(loads', r, k)) = 1
                      ELSE LoadsFor(loads', r, k) = LoadsFor(loads, r, k)

C7_AtMostOne == []C7_Inv /\ [][C7_Act]_vars

\* a finished run whose first batch holds both case variants and whose
\* second batch holds one of them again, with one load for their key
C7_Witness ==
    \E r \in RunIds :
      /\ runs[r].pc = "done"
      /\ Len(runs[r].batches) >= 2
      /\ \E vw \in VariantPairs(runs[r].input) :
           /\ {vw[1], vw[2]} \subseteq RefsIn(runs[r].input, 0, batchSize)
           /\ vw[1] \in RefsIn(runs[r].input, batchSize, Len(runs[r].input))
           /\ Cardinality(LoadsFor(loads, r,
                  <<vw[1].chainId, toLowerCase(vw[1].address)>>)) = 1

\* load l settled with the given outcome
SettledAs(l, outcome) == [l EXCEPT !.state = outcome, !.promise = PreloadPromise(outcome)]

\* C8: a failed load rejects nothing: the promise of its preloadImage call is
\* fulfilled and no run ends rejected; the run resumes after a failure
\* exactly as after a success; it is never left waiting on a batch whose
\* loads have all settled; and a finished run has called preloadImage for
\* every item, whatever failed.
C8_FailuresSwallowed ==
    /\ \A l \in loads :
         /\ l.promise # "rejected"
         /\ l.state = "failed" => l.promise = "fulfilled"
         /\ l.state = "pending" =>
              AfterBatch(runs[l.run], (loads \ {l}) \cup {SettledAs(l, "failed")}, l.run)
                = AfterBatch(runs[l.run], (loads \ {l}) \cup {SettledAs(l, "ok")}, l.run)
    /\ \A r \in RunIds :
         /\ runs[r].pc # "rejected"
         /\ runs[r].pc = "loading" => PendingLoads(r) # {}
         /\ runs[r].pc = "done" => CalledOncePerItem(r, Len(runs[r].input))

\* a run has finished although a load of its first batch failed; a sibling
\* of that load succeeded and a load of the second batch was started
C8_Witness ==
    \E r \in RunIds :
      /\ runs[r].pc = "done"
      /\ \E l1, l2, l3 \in loads :
           /\ l1.run = r /\ l2.run = r /\ l3.run = r
           /\ l1.idx < batchSize /\ l1.state = "failed"
           /\ l2.idx < batchSize /\ l2.state = "ok"
           /\ l3.idx >= batchSize

\* C9: a run starts at most one load per key, and once the load of a key
\* has failed no step starts another load for that key in that run.
C9_Inv ==
    \A r \in RunIds : \A k \in Keys : Cardinality(LoadsFor(loads, r, k)) <= 1

C9_Act ==
    \A l \in loads :
      l.state = "failed" =>
        \A n \in NewLoads : ~(n.run = l.run /\ n.queryKey = l.queryKey)

C9_NoRetry == []C9_Inv /\ [][C9_Act]_vars

\* the load of a key failed, the cache has no value for it, and the same key
\* came again in a later batch of the same run, where it was skipped
C9_Witness ==
    \E l \in loads :
      /\ l.state = "failed"
      /\ cache[l.queryKey] = Absent
      /\ runs[l.run].pc = "done"
      /\ \E x \in skipped :
           /\ x.run = l.run
           /\ x.queryKey = l.queryKey
           /\ x.idx >= batchSize /\ l.idx < batchSize
           /\ x.why = "attempted"

\* C10: an effect run with an undefined or empty vaults prop schedules no
\* timer and leaves the attempted set, the cache and the loads unchanged; no
\* run ever exists for an empty input.
C10_Inv == \A r \in RunIds : runs[r].input # <<>>

C10_Act ==
    (effects' # effects /\ (~vaults'.defined \/ Len(vaults'.items) = 0)) =>
      /\ Len(runs') = Len(runs)
      /\ \A r \in RunIds : runs'[r].timers = runs[r].timers
      /\ timeoutId' = 0
      /\ UNCHANGED <<preloadedSet, cache, loads, skipped>>

C10_EmptyNoOp == []C10_Inv /\ [][C10_Act]_vars

\* the effect ran for an empty array and nothing was scheduled
C10_Witness ==
    /\ effects = 1
    /\ vaults.defined
    /\ vaults.items = <<>>
    /\ runs = <<>>
    /\ timeoutId = 0

\* the runs that are between their first batch and their end
InProgress(r) == runs[r].pc \in {"loading", "delay"}

\* C11 (as claimed): at most one run of the hook instance processes batches
\* at a time: a run forms a batch only while no other run is in progress.
C11_SingleRun ==
    [][\A r \in RunIds :
         FormsBatch(r) => \A o \in RunIds : o # r => ~InProgress(o)]_vars

\* C12: an input change or a teardown leaves every load as it is; a load in
\* flight whose run is no longer the current one can still settle either
\* way; and whenever a load succeeds, cancelled or not, its URL is stored in
\* the cache under its query key.
C12_Inv ==
    \A l \in loads :
      (l.state = "pending" /\ l.run # timeoutId) =>
        /\ ENABLED Settle(l, "ok")
        /\ ENABLED Settle(l, "failed")

C12_Act ==
    /\ (alive' # alive \/ effects' # effects) => loads' = loads
    /\ \A l \in loads :
         (l.state = "pending" /\ SettledAs(l, "ok") \in loads') =>
           cache'[l.queryKey] = l.url

C12_Abandoned == []C12_Inv /\ [][C12_Act]_vars

\* after the teardown a load of the torn-down run is still in flight, its
\* key has no value in the cache, and its success is a possible next step
\* that stores its URL
C12_Witness ==
    /\ ~alive
    /\ \E l \in loads :
         /\ l.state = "pending"
         /\ cache[l.queryKey] = Absent
         /\ ENABLED (Settle(l, "ok") /\ cache'[l.queryKey] = l.url)

\* C13: every run is scheduled behind the 100 ms deferral; the step that
\* schedules it starts no load, makes no preloadImage call and adds nothing
\* to the attempted set; a run that is still deferred has done nothing; and
\* the first batch of a run is formed by a later step taken from the
\* deferred state, the timer's callback.
C13_Inv ==
    \A r \in RunIds :
      /\ runs[r].timers[1] = initialDelay
      /\ runs[r].pc = "deferred" =>
           /\ runs[r].batches = <<>>
           /\ \A l \in loads : l.run # r
           /\ \A x \in skipped : x.run # r

C13_Act ==
    /\ effects' # effects =>
         /\ UNCHANGED <<preloadedSet, loads, skipped>>
         /\ \A r \in 1..Len(runs') :
              r \notin RunIds => runs'[r].pc = "deferred" /\ runs'[r].batches = <<>>
    /\ \A r \in RunIds :
         (FormsBatch(r) /\ runs[r].batches = <<>>) =>
           /\ runs[r].pc = "deferred"
           /\ runs[r].timers = <<initialDelay>>
           /\ effects' = effects

C13_DeferredStart == []C13_Inv /\ [][C13_Act]_vars

\* the deferral of a run has fired and its first batch is in flight, with
\* no other timer scheduled yet
C13_Witness ==
    \E r \in RunIds :
      /\ runs[r].pc = "loading"
      /\ Len(runs[r].batches) = 1
      /\ runs[r].timers = <<initialDelay>>
      /\ PendingLoads(r) # {}

\* C14: a step changes the cache value of a key only by collecting it or by
\* storing the URL of a load of that key that succeeds in this step, the URL
\* computed from the vault reference the load was started for; a step in
\* which a load fails leaves the whole cache unchanged.
C14_StoredValues ==
    [][/\ \A k \in Keys :
            cache'[k] # cache[k] =>
              \/ cache'[k] = Absent
              \/ \E l \in loads :
                   /\ l.state = "pending"
                   /\ SettledAs(l, "ok") \in loads'
                   /\ l.queryKey = k
                   /\ cache'[k] = l.url
                   /\ LET v == runs[l.run].input[l.idx + 1]
                      IN  /\ l.url = getSvgAsset(v.chainId, v.address)
                          /\ k = <<v.chainId, toLowerCase(v.address)>>
       /\ \A l \in loads :
            (l.state = "pending" /\ SettledAs(l, "failed") \in loads') =>
              cache' = cache]_vars

\* one load succeeded and its URL, which keeps the letter case of the
\* address, is stored under the lower-case key; another failed and its key
\* has no value
C14_Witness ==
    \E l1, l2 \in loads :
      /\ l1.state = "ok"
      /\ cache[l1.queryKey] = l1.url
      /\ l1.url[3] # l1.queryKey[2]
      /\ l2.state = "failed"
      /\ cache[l2.queryKey] = Absent

\* C15 (as claimed): after the view is torn down the attempted set is empty.
C15_ClearedOnUnmount == ~alive => preloadedSet = {}

\* C15 (amended): the attempted set starts empty with the hook instance and
\* holds exactly the keys this instance has started a load for; no step
\* removes a key from it, and the teardown leaves it as it is.
C15_Inv == preloadedSet = { l.queryKey : l \in loads }

C15_Act ==
    /\ preloadedSet \subseteq preloadedSet'
    /\ alive' # alive => preloadedSet' = preloadedSet

C15_NeverCleared == []C15_Inv /\ [][C15_Act]_vars

\* the view is torn down and the set holds every key
C15_Witness ==
    /\ ~alive
    /\ preloadedSet = Keys

\* C16: over all runs of the instance each key gets at most one load; a load
\* is started only for a key that is not in the attempted set, the same step
\* adds the key, and no step removes one, so no load is ever started for a
\* key that already has a load, whatever became of it or of its cache entry.
C16_Inv ==
    \A k \in Keys : Cardinality({ l \in loads : l.queryKey = k }) <= 1

C16_Act ==
    /\ preloadedSet \subseteq preloadedSet'
    /\ \A n \in NewLoads :
         /\ n.queryKey \notin preloadedSet
         /\ n.queryKey \in preloadedSet'
         /\ \A l \in loads : l.queryKey # n.queryKey

C16_OncePerInstance == []C16_Inv /\ [][C16_Act]_vars

\* two runs overlap; the load the earlier one started for a key failed, the
\* load it started for another key succeeded and its entry was collected,
\* and the later run skipped both keys although the cache has neither
C16_Witness ==
    \E l1, l2 \in loads : \E x1, x2 \in skipped :
      /\ l1.run = 1 /\ l2.run = 1 /\ InProgress(1)
      /\ l1.state = "failed" /\ l2.state = "ok"
      /\ cache[l1.queryKey] = Absent /\ cache[l2.queryKey] = Absent
      /\ x1.run = 2 /\ x1.queryKey = l1.queryKey /\ x1.why = "attempted"
      /\ x2.run = 2 /\ x2.queryKey = l2.queryKey /\ x2.why = "attempted"

\* C17: when every started load settles and every pacing timer fires, a run
\* whose deferral timer has fired eventually finishes; a finished run has
\* called preloadImage once for every item (a load or an early return) and
\* has no load in flight; and a run never leaves a batch behind with a load
\* unsettled: a pending load belongs to the latest batch of a run that is
\* still waiting for it.
C17_Inv ==
    \A r \in RunIds :
      /\ runs[r].pc = "done" => CalledOncePerItem(r, Len(runs[r].input))
      /\ \A x \in skipped : x.run = r => x.why \in {"attempted", "cached"}
      /\ PendingLoads(r) # {} =>
           /\ runs[r].pc = "loading"
           /\ \A l \in PendingLoads(r) : runs[r].i <= l.idx

C17_Finishes ==
    /\ []C17_Inv
    /\ \A r \in 1..MaxEffects :
         (r \in RunIds /\ Started(r)) ~> (r \in RunIds /\ runs[r].pc = "done")

\* two runs of the instance have finished, one of them after three batches
\* and a failed load
C17_Witness ==
    /\ Len(runs) = 2
    /\ runs[1].pc = "done" /\ runs[2].pc = "done"
    /\ Len(runs[1].batches) = 3
    /\ \E l \in loads : l.run = 1 /\ l.state = "failed"

====
